---- MODULE Spec2Model ----
(***************************************************************************)
(* State-machine model of MCPClient (app/mcp/mcp_client.py): the          *)
(* connection lifecycle (connect / disconnect), the request primitive     *)
(* _send_request, the notification primitive _send_notification, the      *)
(* session header handling, call_tool, list_tools, list_resources,        *)
(* read_resource and health_check.  The pure conversions of the client    *)
(* (request encoding, response decoding, tool flattening) are operators,  *)
(* exercised on bounded inputs by the specification SpecPure.             *)
(*                                                                         *)
(* One client instance is driven by one caller.  A call is split at its   *)
(* blocking points (one HTTP exchange, one sleep), so the order of the     *)
(* exchanges and sleeps of a call is visible in the behaviour.  The       *)
(* server and the network are the environment: every exchange draws its   *)
(* outcome from Outcomes.  An exchange is one call of self.session.post,  *)
(* whatever the mounted HTTPAdapter does below it.                         *)
(***************************************************************************)
EXTENDS Naturals, Sequences, FiniteSets, TLC

VARIABLES
    connected,            \* self.connected
    server_capabilities,  \* self.server_capabilities (NoResult models None)
    session_id,           \* self.session_id (None or a token)
    pool_open,            \* self.session holds pooled connections
    pc,                   \* position of the caller inside the current call
    attempt,              \* loop variable of connect()
    last_exc,             \* the exception bound in the running except clause
    wire,                 \* messages posted during the current call
    sleeps,               \* arguments of time.sleep during the current call
    close_calls,          \* calls of self.session.close() in the current call
    ret,                  \* how the current / last call ended
    received,             \* non-empty session headers responses carried so far
    last,                 \* the latest exchange of the current call
    handshake,            \* session header of the response that ended connect()'s loop
    started,              \* what held when the current call began
                          \* (after_disconnect: the call before it was
                          \* disconnect(); after_decode_failure: the latest
                          \* exchange before it met an undecodable body)
    arg,                  \* SpecPure: the input handed to a conversion
    out,                  \* SpecPure: what the conversion gave back
    uuid_calls,           \* SpecIds: calls of uuid.uuid4() so far
    posted_ids,           \* SpecIds: the id member of every message posted
                          \* so far, in order (None: the message has none)
    reply,                \* SpecIds: the latest request of _send_request, the
                          \* id its response envelope carried, and whether
                          \* the primitive returned that response's result
    threads,              \* SpecShared: for each of two callers sharing the
                          \* client, its position in _send_request and its
                          \* local variables
    sessions,             \* SpecMock: MCPHandler.sessions of the mock server
    answer,               \* SpecMock: the latest request the mock server
                          \* handled and what it sent back
    cache,                \* SpecCache: the rows of table jira_issues
    call,                 \* SpecCache: the running / latest save_to_cache
    latest                \* SpecCache: for each issue key the data of the
                          \* last save of it that was committed

vars == <<connected, server_capabilities, session_id, pool_open, pc, attempt,
          last_exc, wire, sleeps, close_calls, ret, received, last, handshake,
          started, arg, out, uuid_calls, posted_ids, reply, threads,
          sessions, answer, cache, call, latest>>

\* the variables the single-caller specification leaves alone
pure == <<arg, out, threads, sessions, answer, cache, call, latest>>

\* the variables of the mock server and of the collector's cache
mock == <<sessions, answer>>

collector == <<cache, call, latest>>

\* the variables only SpecIds moves
ids == <<uuid_calls, posted_ids, reply>>

---------------------------------------------------------------------------
(* Bounds of the environment.                                              *)

\* number of distinct session tokens a server may hand out
NumTokens == 2

\* SpecPure: properties of a tool's input schema, lines of a response body
MaxProps == 2

MaxLines == 3

---------------------------------------------------------------------------
(* Values.                                                                 *)

None == "None"

\* the elements of a sequence
Range(q) == {q[i] : i \in 1..Len(q)}

Tokens == {"s" \o ToString(i) : i \in 1..NumTokens}

\* resp.headers.get("mcp-session-id"): absent, empty, or a token
HeaderVals == {None, ""} \cup Tokens

\* Python truthiness of an Optional[str]
Truthy(s) == s # None /\ s # ""

\* Optional[Dict]: present = FALSE models None; keys = {} models {}
\* the lists a result carries under "content", "tools", "resources" and
\* "contents" are fields of their own (<<>> when the key is absent)
NoResult ==
    [present |-> FALSE, keys |-> {}, content |-> <<>>, isError |-> FALSE,
     tools |-> <<>>, resources |-> <<>>, contents |-> <<>>]

EmptyMap ==
    [present |-> TRUE, keys |-> {}, content |-> <<>>, isError |-> FALSE,
     tools |-> <<>>, resources |-> <<>>, contents |-> <<>>]

CapsResult ==
    [present |-> TRUE, keys |-> {"protocolVersion", "capabilities"},
     content |-> <<>>, isError |-> FALSE,
     tools |-> <<>>, resources |-> <<>>, contents |-> <<>>]

TextItem(t) == [type |-> "text", text |-> t]

ToolResults ==
    { [present |-> TRUE, keys |-> {"content", "isError"},
       content |-> <<TextItem(<<"t1">>)>>, isError |-> TRUE,
       tools |-> <<>>, resources |-> <<>>, contents |-> <<>>] }

Results == {NoResult, EmptyMap, CapsResult} \cup ToolResults

\* Python truthiness of an Optional[Dict]
TruthyMap(m) == m.present /\ m.keys # {}

\* the error member of a response envelope
NoError == [present |-> FALSE, keys |-> {}, message |-> ""]

Messages == {"Invalid params"}

MsgError(m) == [present |-> TRUE, keys |-> {"code", "message"}, message |-> m]

Errors == {NoError} \cup {MsgError(m) : m \in Messages}

---------------------------------------------------------------------------
(* What one HTTP exchange (self.session.post) can come to.                 *)

\* kind: the post raised ("refused", "timeout") or a response came back.
\* parses: the body is JSON (on the path its content type selects);
\* valid: the parsed document is accepted by MCPResponse(**data).
NoResponse ==
    [kind : {"refused", "timeout"}, status : {0}, sid : {None},
     ctype : {"json"}, parses : {FALSE}, valid : {FALSE},
     result : {NoResult}, error : {NoError}]

ErrorStatus ==
    [kind : {"response"}, status : {500}, sid : HeaderVals,
     ctype : {"json"}, parses : {FALSE}, valid : {FALSE},
     result : {NoResult}, error : {NoError}]

Malformed ==
    [kind : {"response"}, status : {200}, sid : HeaderVals,
     ctype : {"json", "sse"}, parses : {FALSE}, valid : {FALSE},
     result : {NoResult}, error : {NoError}]

\* JSON that is no response envelope (no id, not an object, ...)
Invalid ==
    [kind : {"response"}, status : {200}, sid : HeaderVals,
     ctype : {"json"}, parses : {TRUE}, valid : {FALSE},
     result : {NoResult}, error : {NoError}]

\* well-formed envelopes: a result, an error, or (ill-behaved) both
Envelopes ==
    [kind : {"response"}, status : {200}, sid : HeaderVals,
     ctype : {"json", "sse"}, parses : {TRUE}, valid : {TRUE},
     result : Results, error : {NoError}]
    \cup
    [kind : {"response"}, status : {200}, sid : HeaderVals,
     ctype : {"json"}, parses : {TRUE}, valid : {TRUE},
     result : {NoResult, CapsResult}, error : Errors \ {NoError}]

Outcomes ==
    NoResponse \cup ErrorStatus \cup Malformed \cup Invalid \cup Envelopes

---------------------------------------------------------------------------
(* Exceptions are modelled by their message, a sequence of its parts.      *)

NoExc == <<>>

\* raise Exception(f"Failed to communicate with MCP server: {e}") from e
CommFailure(cause) == <<"Failed to communicate with MCP server", cause>>

\* raise Exception(f"MCP Error: {error.get('message', error)}")
ProtocolFailure(error) == <<"MCP Error", error.message>>

\* mutant of ConnectFailure: the error bound by the handler of the attempt
\* before is wrapped
ConnectFailure_Earlier(e) == <<"Failed to connect to MCP server">> \o last_exc

\* raise Exception(f"Failed to connect to MCP server: {e}") from e
ConnectFailure(e) == <<"Failed to connect to MCP server">> \o e

---------------------------------------------------------------------------
(* Low-level request primitives.                                           *)

\* mutant of _make_headers: the session header is never attached
_make_headers_Never(sess) == None

\* _make_headers: the value of the mcp-session-id header (None: header absent)
_make_headers(sess) == IF Truthy(sess) THEN sess ELSE None

\* mutant of StoreSession: a token is made up when the server sent none
StoreSession_Mint(sess, sid) ==
    IF Truthy(sid) THEN sid ELSE IF Truthy(sess) THEN sess ELSE "s1"

\* mutant of StoreSession: a token once held is never overwritten
StoreSession_KeepFirst(sess, sid) ==
    IF Truthy(sess) THEN sess ELSE IF Truthy(sid) THEN sid ELSE sess

\* _send_request, lines 137-139: sid = resp.headers.get(...); if sid: store it
StoreSession(sess, sid) == IF Truthy(sid) THEN sid ELSE sess

\* resp.raise_for_status()
raise_for_status(o) == o.status >= 400

\* mutant of _send_request: a result is returned whenever there is one,
\* the error member being looked at only without a result
_send_request_ResultFirst(sess, o) ==
    IF o.kind # "response"
    THEN [session_id |-> sess, raised |-> TRUE,
          exc |-> CommFailure(IF o.kind = "refused" THEN "ConnectionError"
                              ELSE "Timeout"),
          result |-> NoResult]
    ELSE IF raise_for_status(o)
    THEN [session_id |-> sess, raised |-> TRUE,
          exc |-> CommFailure("HTTPError"), result |-> NoResult]
    ELSE IF ~o.parses
    THEN [session_id |-> StoreSession(sess, o.sid), raised |-> TRUE,
          exc |-> IF o.ctype = "sse" THEN <<"JSONDecodeError">>
                  ELSE CommFailure("JSONDecodeError"),
          result |-> NoResult]
    ELSE IF ~o.valid
    THEN [session_id |-> StoreSession(sess, o.sid), raised |-> TRUE,
          exc |-> <<"ValidationError">>, result |-> NoResult]
    ELSE IF TruthyMap(o.error) /\ ~o.result.present
    THEN [session_id |-> StoreSession(sess, o.sid), raised |-> TRUE,
          exc |-> ProtocolFailure(o.error), result |-> NoResult]
    ELSE [session_id |-> StoreSession(sess, o.sid), raised |-> FALSE,
          exc |-> NoExc, result |-> o.result]

\* mutant of _send_request: a body that does not decode counts as a
\* response without a result
_send_request_Lenient(sess, o) ==
    IF o.kind # "response"
    THEN [session_id |-> sess, raised |-> TRUE,
          exc |-> CommFailure(IF o.kind = "refused" THEN "ConnectionError"
                              ELSE "Timeout"),
          result |-> NoResult]
    ELSE IF raise_for_status(o)
    THEN [session_id |-> sess, raised |-> TRUE,
          exc |-> CommFailure("HTTPError"), result |-> NoResult]
    ELSE IF ~o.parses
    THEN [session_id |-> StoreSession(sess, o.sid), raised |-> FALSE,
          exc |-> NoExc, result |-> NoResult]
    ELSE IF ~o.valid
    THEN [session_id |-> StoreSession(sess, o.sid), raised |-> TRUE,
          exc |-> <<"ValidationError">>, result |-> NoResult]
    ELSE IF TruthyMap(o.error)
    THEN [session_id |-> StoreSession(sess, o.sid), raised |-> TRUE,
          exc |-> ProtocolFailure(o.error), result |-> NoResult]
    ELSE [session_id |-> StoreSession(sess, o.sid), raised |-> FALSE,
          exc |-> NoExc, result |-> o.result]

\* mutant of _send_request: the session token is taken from the response
\* only once the body was decoded and carried no error
_send_request_StoreOnSuccess(sess, o) ==
    IF o.kind # "response"
    THEN [session_id |-> sess, raised |-> TRUE,
          exc |-> CommFailure(IF o.kind = "refused" THEN "ConnectionError"
                              ELSE "Timeout"),
          result |-> NoResult]
    ELSE IF raise_for_status(o)
    THEN [session_id |-> sess, raised |-> TRUE,
          exc |-> CommFailure("HTTPError"), result |-> NoResult]
    ELSE IF ~o.parses
    THEN [session_id |-> sess, raised |-> TRUE,
          exc |-> IF o.ctype = "sse" THEN <<"JSONDecodeError">>
                  ELSE CommFailure("JSONDecodeError"),
          result |-> NoResult]
    ELSE IF ~o.valid
    THEN [session_id |-> sess, raised |-> TRUE,
          exc |-> <<"ValidationError">>, result |-> NoResult]
    ELSE IF TruthyMap(o.error)
    THEN [session_id |-> sess, raised |-> TRUE,
          exc |-> ProtocolFailure(o.error), result |-> NoResult]
    ELSE [session_id |-> StoreSession(sess, o.sid), raised |-> FALSE,
          exc |-> NoExc, result |-> o.result]

\* _send_request, from the post to the return or the raise, against outcome o.
\* Gives the session id afterwards, whether it raised, the exception and the
\* result member of the response.
_send_request(sess, o) ==
    IF o.kind = "refused"
    THEN [session_id |-> sess, raised |-> TRUE,
          exc |-> CommFailure("ConnectionError"), result |-> NoResult]
    ELSE IF o.kind = "timeout"
    THEN [session_id |-> sess, raised |-> TRUE,
          exc |-> CommFailure("Timeout"), result |-> NoResult]
    ELSE IF raise_for_status(o)
    THEN [session_id |-> sess, raised |-> TRUE,
          exc |-> CommFailure("HTTPError"), result |-> NoResult]
    ELSE LET sess2 == StoreSession(sess, o.sid) IN
         IF ~o.parses
         THEN \* resp.json() raises requests' JSONDecodeError, which is wrapped;
              \* json.loads in _parse_sse_response raises json's, which is not
              [session_id |-> sess2, raised |-> TRUE,
               exc |-> IF o.ctype = "sse" THEN <<"JSONDecodeError">>
                       ELSE CommFailure("JSONDecodeError"),
               result |-> NoResult]
         ELSE IF ~o.valid
         THEN \* MCPResponse(**data) raises; no except clause matches
              [session_id |-> sess2, raised |-> TRUE,
               exc |-> <<"ValidationError">>, result |-> NoResult]
         ELSE IF TruthyMap(o.error)
         THEN [session_id |-> sess2, raised |-> TRUE,
               exc |-> ProtocolFailure(o.error), result |-> NoResult]
         ELSE [session_id |-> sess2, raised |-> FALSE,
               exc |-> NoExc, result |-> o.result]

\* _send_notification: the post may raise, which is logged and swallowed; the
\* response, if any, is dropped.  Gives the session id afterwards.
_send_notification(sess, o) == sess

\* whether the post itself raised (no response came back)
PostRaised(o) == o.kind # "response"

\* the entry of the wire log for one posted message: its kind, method,
\* whether it has a params member, its session header (None: no header), and
\* whether the primitive that posted it completed without raising
Sent(kind, method, params, sess, ok) ==
    [kind |-> kind, method |-> method, params |-> params,
     sid |-> _make_headers(sess), ok |-> ok]

\* the non-empty session header values responses have carried so far
Received(rcv, o) == IF o.kind = "response" /\ Truthy(o.sid)
                    THEN rcv \cup {o.sid} ELSE rcv

\* mutant of PoolAfter: a session that holds no connection never pools one
PoolAfter_StaysClosed(open, o) == open

\* a connection is pooled once a server has been reached
PoolAfter(open, o) == open \/ o.kind # "refused"

\* __init__, lines 73-80: the Retry mounted on the session through an
\* HTTPAdapter.  No allowed_methods is given, so urllib3's default set holds.
retry_total == 3

status_forcelist == {429, 500, 502, 503, 504}

allowed_methods == {"DELETE", "GET", "HEAD", "OPTIONS", "PUT", "TRACE"}

\* mutant of Transmissions: the status retry applies to every method
Transmissions_AnyMethod(o) ==
    IF o.kind = "refused" THEN 0
    ELSE IF o.status \in status_forcelist THEN 1 + retry_total
    ELSE 1

\* how often one self.session.post (line 128) writes the request to the
\* server: never when no connection could be made (the adapter's retries of
\* the connection included), once otherwise, and again retry_total times
\* when the status is in status_forcelist and the method may be retried
Transmissions(o) ==
    IF o.kind = "refused" THEN 0
    ELSE IF "POST" \in allowed_methods /\ o.status \in status_forcelist
    THEN 1 + retry_total
    ELSE 1

\* the latest exchange: what was posted and what came back (answered = FALSE
\* when no response came; else its status, session header, whether its body
\* parses and the error and result members of the parsed body), and how
\* often the post wrote the request to the server
NoExchange ==
    [kind |-> "none", method |-> "", answered |-> FALSE, status |-> 0,
     sid |-> None, parses |-> FALSE, error |-> NoError, result |-> NoResult,
     sent |-> 0]

Exchange(kind, method, o) ==
    [kind |-> kind, method |-> method, answered |-> (o.kind = "response"),
     status |-> o.status, sid |-> o.sid, parses |-> o.parses,
     error |-> o.error, result |-> o.result, sent |-> Transmissions(o)]

\* outcomes of a post whose response body is never read
NotificationOutcomes ==
    NoResponse \cup ErrorStatus \cup
    [kind : {"response"}, status : {200}, sid : HeaderVals, ctype : {"json"},
     parses : {TRUE}, valid : {TRUE}, result : {EmptyMap}, error : {NoError}]

---------------------------------------------------------------------------
(* How a call ends.                                                        *)

NoCall ==
    [op |-> "none", status |-> "none", exc |-> NoExc, flag |-> FALSE,
     content |-> <<>>]

Running(op) ==
    [op |-> op, status |-> "running", exc |-> NoExc, flag |-> FALSE,
     content |-> <<>>]

\* flag: the boolean a call returns (connect: True; call_tool: isError)
Returned(op, flag, content) ==
    [op |-> op, status |-> "returned", exc |-> NoExc, flag |-> flag,
     content |-> content]

Raised(op, exc) ==
    [op |-> op, status |-> "raised", exc |-> exc, flag |-> FALSE,
     content |-> <<>>]

\* SpecPure's variables while no conversion is exercised
NoArg == [fn |-> "none"]

NoOut == [done |-> FALSE]

\* the two callers of SpecShared
Callers == {"A", "B"}

\* a caller outside _send_request: it has built no headers, posted nothing
\* (held: self.session_id when it posted) and got no response (sid: the
\* session header of its response; overtaken: the other caller stored a
\* token after this caller built its headers and before it posted)
Outside ==
    [pc |-> "idle", headers |-> None, posted |-> FALSE, held |-> None,
     sid |-> None, overtaken |-> FALSE]

\* the mock server before any request: MCPHandler.sessions = {}, modelled
\* by its keys and the keys whose "initialized" is True
NoSessions == [known |-> {}, initialized |-> {}]

NoAnswer == [handled |-> FALSE]

\* the issue keys and issue data of SpecCache
IssueKeys == {"PROJ-100", "PROJ-101"}

IssueData == {"summary", "Updated summary"}

\* no save_to_cache called yet; nothing committed for any key
NoSave ==
    [pc |-> "idle", issues |-> <<>>, i |-> 0, j |-> 0, saved_count |-> 0,
     attempts |-> <<>>, before |-> {}, status |-> "none", value |-> 0]

NothingSaved == [k \in IssueKeys |-> None]

\* SpecIds's reply while no request has been posted
NoReply == [request |-> None, response |-> None, delivered |-> FALSE]

---------------------------------------------------------------------------
(* Initial state: MCPClient.__init__.                                      *)

Constructed ==
    /\ connected = FALSE
    /\ server_capabilities = NoResult
    /\ session_id = None
    /\ pool_open = FALSE
    /\ pc = "idle"
    /\ attempt = 1
    /\ last_exc = NoExc
    /\ wire = <<>>
    /\ sleeps = <<>>
    /\ close_calls = 0
    /\ ret = NoCall
    /\ received = {}
    /\ last = NoExchange
    /\ handshake = None
    /\ started = [fresh |-> TRUE, connected |-> FALSE,
                  after_disconnect |-> FALSE, after_decode_failure |-> FALSE]

Init ==
    /\ Constructed
    /\ arg = NoArg
    /\ out = NoOut
    /\ uuid_calls = 0
    /\ posted_ids = <<>>
    /\ reply = NoReply
    /\ threads = [t \in Callers |-> Outside]
    /\ sessions = NoSessions
    /\ answer = NoAnswer
    /\ cache = {}
    /\ call = NoSave
    /\ latest = NothingSaved

\* the caller enters a public method of the client
Begin(op, position) ==
    /\ pc = "idle"
    /\ pc' = position
    /\ attempt' = 1
    /\ last_exc' = NoExc
    /\ wire' = <<>>
    /\ sleeps' = <<>>
    /\ close_calls' = 0
    /\ ret' = Running(op)
    /\ started' = [fresh |-> (ret = NoCall), connected |-> connected,
                   after_disconnect |-> (ret.op = "disconnect"),
                   after_decode_failure |->
                       (last.kind = "request" /\ last.answered
                          /\ last.status < 400 /\ ~last.parses)]
    /\ handshake' = None
    /\ last' = NoExchange
    /\ UNCHANGED <<connected, server_capabilities, session_id, pool_open,
                   received, pure>>

\* what one post leaves behind besides the client's fields
Posted(kind, method, params, ok, o) ==
    /\ wire' = Append(wire, Sent(kind, method, params, session_id, ok))
    /\ received' = Received(received, o)
    /\ pool_open' = PoolAfter(pool_open, o)
    /\ last' = Exchange(kind, method, o)

---------------------------------------------------------------------------
(* connect()                                                               *)

retry_delays == <<1, 2, 4>>

\* mutant of AttemptsRemain: the first failure ends the call
AttemptsRemain_Never(n) == FALSE

\* mutant of AttemptsRemain: the handler also sleeps after the last attempt
AttemptsRemain_Inclusive(n) == n <= Len(retry_delays)

\* connect, line 253: if attempt < len(retry_delays)
AttemptsRemain(n) == n < Len(retry_delays)

\* mutant of Delay: the delays are taken one place too far
Delay_Shifted(n) == retry_delays[n + 1]

\* connect, line 224: for attempt, delay in enumerate(retry_delays, 1)
Delay(n) == retry_delays[n]

\* mutant of Capabilities: the result is stored as it came, None included
Capabilities_Raw(result) == result

\* connect, line 242: self.server_capabilities = resp.result or {}
Capabilities(result) == IF TruthyMap(result) THEN result ELSE EmptyMap

ConnectBegin ==
    /\ pc = "idle"
    /\ Begin("connect", "connect_try")

\* one pass of the loop body up to the notification, or into the handler
ConnectAttempt ==
    /\ pc = "connect_try"
    /\ \E o \in Outcomes :
         LET r == _send_request(session_id, o) IN
         /\ Posted("request", "initialize", TRUE, ~r.raised, o)
         /\ session_id' = r.session_id
         /\ IF ~r.raised
            THEN /\ server_capabilities' = Capabilities(r.result)
                 /\ pc' = "connect_notify"
                 /\ handshake' = o.sid
                 /\ UNCHANGED <<last_exc, ret>>
            ELSE /\ UNCHANGED <<server_capabilities, handshake>>
                 /\ IF AttemptsRemain(attempt)
                    THEN /\ pc' = "connect_sleep"
                         /\ last_exc' = r.exc
                         /\ UNCHANGED ret
                    ELSE /\ pc' = "idle"
                         /\ last_exc' = NoExc
                         /\ ret' = Raised("connect", ConnectFailure(r.exc))
    /\ UNCHANGED <<connected, attempt, sleeps, close_calls, started, pure>>

\* the handler's time.sleep(delay), then the next pass of the loop
ConnectSleep ==
    /\ pc = "connect_sleep"
    /\ sleeps' = Append(sleeps, Delay(attempt))
    /\ attempt' = attempt + 1
    /\ pc' = "connect_try"
    /\ UNCHANGED <<connected, server_capabilities, session_id, pool_open,
                   last_exc, wire, close_calls, ret, received, last, handshake,
                   started, pure>>

\* mutant of NotificationRaises: a post that raised is let out
NotificationRaises_Propagates(o) == PostRaised(o)

\* _send_notification, lines 197-207: the post stands in a try whose
\* handler only logs, so the call raises nothing into connect()
NotificationRaises(o) == FALSE

\* lines 245-249: the initialized notification, connected = True, return
\* True; an exception out of the notification would reach the handler of
\* the loop body like one out of the handshake
ConnectNotify ==
    /\ pc = "connect_notify"
    /\ \E o \in NotificationOutcomes :
         /\ Posted("notification", "notifications/initialized", FALSE,
                   ~PostRaised(o), o)
         /\ session_id' = _send_notification(session_id, o)
         /\ IF ~NotificationRaises(o)
            THEN /\ connected' = TRUE
                 /\ ret' = Returned("connect", TRUE, <<>>)
                 /\ pc' = "idle"
                 /\ UNCHANGED last_exc
            ELSE /\ UNCHANGED connected
                 /\ IF AttemptsRemain(attempt)
                    THEN /\ pc' = "connect_sleep"
                         /\ last_exc' = <<"ConnectionError">>
                         /\ UNCHANGED ret
                    ELSE /\ pc' = "idle"
                         /\ last_exc' = NoExc
                         /\ ret' = Raised("connect",
                                          ConnectFailure(<<"ConnectionError">>))
    /\ UNCHANGED <<server_capabilities, attempt, sleeps, close_calls,
                   handshake, started, pure>>

---------------------------------------------------------------------------
(* disconnect()                                                            *)

\* mutant of ShutdownNeeded: shutdown is sent whatever the state
ShutdownNeeded_Always(conn) == TRUE

\* disconnect, line 265: if self.connected
ShutdownNeeded(conn) == conn

DisconnectBegin ==
    /\ pc = "idle"
    /\ Begin("disconnect",
             IF ShutdownNeeded(connected) THEN "disconnect_shutdown"
             ELSE "disconnect_close")

\* mutant of DisconnectResult: the handler lets the exception out
DisconnectResult_Reraise(e) ==
    IF e = NoExc THEN Returned("disconnect", FALSE, <<>>)
    ELSE Raised("disconnect", e)

\* lines 269-270: except Exception as e: logger.warning(...); e is what
\* the shutdown request raised (NoExc: nothing).  The call ends normally.
DisconnectResult(e) == Returned("disconnect", FALSE, <<>>)

\* lines 266-273: the shutdown request, its handler, connected = False
DisconnectShutdown ==
    /\ pc = "disconnect_shutdown"
    /\ \E o \in Outcomes :
         LET r == _send_request(session_id, o) IN
         /\ Posted("request", "shutdown", FALSE, ~r.raised, o)
         /\ session_id' = r.session_id
         /\ last_exc' = r.exc
    /\ connected' = FALSE
    /\ pc' = "disconnect_close"
    /\ UNCHANGED <<server_capabilities, attempt, sleeps, close_calls,
                   ret, handshake, started, pure>>

\* lines 274-279: self.session.close()
DisconnectClose ==
    /\ pc = "disconnect_close"
    /\ pool_open' = FALSE
    /\ close_calls' = close_calls + 1
    /\ ret' = DisconnectResult(last_exc)
    /\ last_exc' = NoExc
    /\ pc' = "idle"
    /\ UNCHANGED <<connected, server_capabilities, session_id, attempt,
                   wire, sleeps, received, last, handshake, started, pure>>

---------------------------------------------------------------------------
(* call_tool()                                                             *)

\* result.get("content", [])
GetContent(result) == IF "content" \in result.keys THEN result.content ELSE <<>>

\* mutant of GetIsError: a result without the flag counts as an error
GetIsError_DefaultTrue(result) ==
    IF "isError" \in result.keys THEN result.isError ELSE TRUE

\* result.get("isError", False)
GetIsError(result) == IF "isError" \in result.keys THEN result.isError ELSE FALSE

\* mutant of ToolFailure: the exception is not converted
ToolFailure_Reraise(exc) == Raised("call_tool", exc)

\* call_tool, line 373: the flagged result built in the handler
ToolFailure(exc) ==
    Returned("call_tool", TRUE, <<TextItem(<<"Error:">> \o exc)>>)

\* call_tool, lines 369-370
ToolSuccess(result) ==
    LET res == IF TruthyMap(result) THEN result ELSE EmptyMap IN
    Returned("call_tool", GetIsError(res), GetContent(res))

\* the isError member of a tools/call result: not there, false or true
IsErrorMembers ==
    {[there |-> FALSE, value |-> FALSE], [there |-> TRUE, value |-> FALSE],
     [there |-> TRUE, value |-> TRUE]}

\* results a server gives to tools/call: two content items in either order
CallResults ==
    {[EmptyMap EXCEPT
         !.keys = {"content"} \cup (IF m.there THEN {"isError"} ELSE {}),
         !.content = c, !.isError = m.value] :
        c \in {<<TextItem(<<"t1">>), TextItem(<<"t2">>)>>,
               <<TextItem(<<"t2">>), TextItem(<<"t1">>)>>},
        m \in IsErrorMembers}

\* a response to tools/call may also carry an error next to a tool result
ToolOutcomes ==
    Outcomes \cup
    [kind : {"response"}, status : {200}, sid : {None}, ctype : {"json"},
     parses : {TRUE}, valid : {TRUE}, result : CallResults, error : {NoError}]
    \cup
    [kind : {"response"}, status : {200}, sid : {None}, ctype : {"json"},
     parses : {TRUE}, valid : {TRUE}, result : ToolResults,
     error : Errors \ {NoError}]

CallToolBegin ==
    /\ pc = "idle"
    /\ Begin("call_tool", "call_tool_send")

CallToolSend ==
    /\ pc = "call_tool_send"
    /\ \E o \in ToolOutcomes :
         LET r == _send_request(session_id, o) IN
         /\ Posted("request", "tools/call", TRUE, ~r.raised, o)
         /\ session_id' = r.session_id
         /\ ret' = IF r.raised THEN ToolFailure(r.exc) ELSE ToolSuccess(r.result)
    /\ pc' = "idle"
    /\ UNCHANGED <<connected, server_capabilities, attempt, last_exc, sleeps,
                   close_calls, handshake, started, pure>>

---------------------------------------------------------------------------
(* list_tools() and list_resources()                                       *)

\* A member of a JSON object that holds a list or an (insertion-ordered)
\* map: absent, or there with its entries in document order.
Absent == [present |-> FALSE, entries |-> <<>>]

Listed(entries) == [present |-> TRUE, entries |-> entries]

\* a tool descriptor without an inputSchema member
NoSchema == [present |-> FALSE, properties |-> Absent, required |-> Absent]

Schema(properties, required) ==
    [present |-> TRUE, properties |-> properties, required |-> required]

\* one entry of the properties map: the property's name and the type member
\* of its info (None: no type member)
Property(name, type) == [name |-> name, type |-> type]

\* line 334: info.get("type", "string")
GetType(info) == IF info.type = None THEN "string" ELSE info.type

\* mutant of IsRequired: the flag is left to ToolParameter's default
IsRequired_Default(name, required) == TRUE

\* lines 328 and 336: required = schema.get("required", []) or [];
\* "required": name in required
IsRequired(name, required) == name \in Range(required.entries)

\* lines 326-338: one parameter per item of properties.items(), in order
Parameters(schema) ==
    LET properties == schema.properties.entries IN
    [i \in 1..Len(properties) |->
        [name |-> properties[i].name,
         type |-> GetType(properties[i]),
         required |-> IsRequired(properties[i].name, schema.required)]]

\* lines 340-344: Tool(name=t["name"], ..., parameters=parameters)
ParseTool(t) == [name |-> t.name, parameters |-> Parameters(t.inputSchema)]

\* lines 323-344: the loop over tools_data
ParseTools(tools_data) ==
    [i \in 1..Len(tools_data) |-> ParseTool(tools_data[i])]

\* line 359: Resource(**r), the optional fields at their defaults
ParseResource(r) ==
    [uri |-> r.uri, name |-> r.name, description |-> None, mimeType |-> None]

\* line 322: resp.result.get("tools", []) if resp.result else []
GetTools(result) ==
    IF TruthyMap(result) /\ "tools" \in result.keys THEN result.tools ELSE <<>>

\* line 357: resp.result.get("resources", []) if resp.result else []
GetResources(result) ==
    IF TruthyMap(result) /\ "resources" \in result.keys
    THEN result.resources ELSE <<>>

\* the tool the listing server offers: two properties, the first required
SearchTool ==
    [name |-> "search",
     inputSchema |-> Schema(Listed(<<Property("query", None),
                                     Property("limit", "integer")>>),
                            Listed(<<"query">>))]

\* results a server gives to the listing methods
ListResults ==
    { [EmptyMap EXCEPT !.keys = {"tools"}, !.tools = <<SearchTool>>],
      [EmptyMap EXCEPT !.keys = {"resources"},
                       !.resources = <<[uri |-> "r1", name |-> "n1"]>>] }

ListOutcomes ==
    Outcomes \cup
    [kind : {"response"}, status : {200}, sid : HeaderVals,
     ctype : {"json", "sse"}, parses : {TRUE}, valid : {TRUE},
     result : ListResults, error : {NoError}]

\* mutant of ListToolsResult: the key is demanded and nothing is caught
ListToolsResult_Strict(r) ==
    IF r.raised THEN Raised("list_tools", r.exc)
    ELSE IF "tools" \notin r.result.keys
    THEN Raised("list_tools", <<"KeyError">>)
    ELSE Returned("list_tools", FALSE, ParseTools(r.result.tools))

\* lines 319-351: what list_tools returns, r being what _send_request did
ListToolsResult(r) ==
    IF r.raised THEN Returned("list_tools", FALSE, <<>>)
    ELSE Returned("list_tools", FALSE, ParseTools(GetTools(r.result)))

\* lines 355-363: what list_resources returns
ListResourcesResult(r) ==
    IF r.raised THEN Returned("list_resources", FALSE, <<>>)
    ELSE LET resources_data == GetResources(r.result) IN
         Returned("list_resources", FALSE,
                  [i \in 1..Len(resources_data) |->
                      ParseResource(resources_data[i])])

ListToolsBegin ==
    /\ pc = "idle"
    /\ Begin("list_tools", "list_tools_send")

ListToolsSend ==
    /\ pc = "list_tools_send"
    /\ \E o \in ListOutcomes :
         LET r == _send_request(session_id, o) IN
         /\ Posted("request", "tools/list", FALSE, ~r.raised, o)
         /\ session_id' = r.session_id
         /\ ret' = ListToolsResult(r)
    /\ pc' = "idle"
    /\ UNCHANGED <<connected, server_capabilities, attempt, last_exc, sleeps,
                   close_calls, handshake, started, pure>>

ListResourcesBegin ==
    /\ pc = "idle"
    /\ Begin("list_resources", "list_resources_send")

ListResourcesSend ==
    /\ pc = "list_resources_send"
    /\ \E o \in ListOutcomes :
         LET r == _send_request(session_id, o) IN
         /\ Posted("request", "resources/list", FALSE, ~r.raised, o)
         /\ session_id' = r.session_id
         /\ ret' = ListResourcesResult(r)
    /\ pc' = "idle"
    /\ UNCHANGED <<connected, server_capabilities, attempt, last_exc, sleeps,
                   close_calls, handshake, started, pure>>

---------------------------------------------------------------------------
(* health_check()                                                          *)

\* mutant of HealthReport: the report is healthy whatever happened
HealthReport_Optimistic(r) == Returned("health_check", TRUE, <<>>)

\* lines 289-308: the report; flag: status is "healthy"; content: <<>> for
\* error None, else the text of the exception.  _send_request raises on a
\* truthy error member, so the else branch of line 299 is never taken.
HealthReport(r) ==
    IF r.raised THEN Returned("health_check", FALSE, <<r.exc>>)
    ELSE Returned("health_check", TRUE, <<>>)

HealthCheckBegin ==
    /\ pc = "idle"
    /\ Begin("health_check", "health_check_send")

HealthCheckSend ==
    /\ pc = "health_check_send"
    /\ \E o \in ListOutcomes :
         LET r == _send_request(session_id, o) IN
         /\ Posted("request", "tools/list", FALSE, ~r.raised, o)
         /\ session_id' = r.session_id
         /\ ret' = HealthReport(r)
    /\ pc' = "idle"
    /\ UNCHANGED <<connected, server_capabilities, attempt, last_exc, sleeps,
                   close_calls, handshake, started, pure>>

---------------------------------------------------------------------------
(* read_resource()                                                         *)

\* a content item: its text and blob members (None: no such member)
ContentItem(text, blob) == [text |-> text, blob |-> blob]

FirstItems == {ContentItem(t, b) : t \in {None, "", "t1"}, b \in {None, "b1"}}

LaterItems == {ContentItem("t2", None), ContentItem(None, "b2")}

ContentLists ==
    {<<>>} \cup {<<a>> : a \in FirstItems}
    \cup {<<a, b>> : a \in FirstItems, b \in LaterItems}

\* results a server gives to resources/read
ReadResults ==
    {[EmptyMap EXCEPT !.keys = {"contents"}, !.contents = c] : c \in ContentLists}

ReadOutcomes ==
    Outcomes \cup
    [kind : {"response"}, status : {200}, sid : {None}, ctype : {"json"},
     parses : {TRUE}, valid : {TRUE}, result : ReadResults, error : {NoError}]

\* result.get("contents", [])
GetContents(result) ==
    IF "contents" \in result.keys THEN result.contents ELSE <<>>

\* line 382: contents[0].get("text") or contents[0].get("blob")
FirstPayload(item) == IF Truthy(item.text) THEN item.text ELSE item.blob

\* lines 377-386: what read_resource returns (content: the one value)
ReadResult(r) ==
    IF r.raised THEN Returned("read_resource", FALSE, <<None>>)
    ELSE LET result == IF TruthyMap(r.result) THEN r.result ELSE EmptyMap
             contents == GetContents(result)
         IN  IF contents # <<>>
             THEN Returned("read_resource", FALSE, <<FirstPayload(contents[1])>>)
             ELSE Returned("read_resource", FALSE, <<None>>)

ReadResourceBegin ==
    /\ pc = "idle"
    /\ Begin("read_resource", "read_resource_send")

ReadResourceSend ==
    /\ pc = "read_resource_send"
    /\ \E o \in ReadOutcomes :
         LET r == _send_request(session_id, o) IN
         /\ Posted("request", "resources/read", TRUE, ~r.raised, o)
         /\ session_id' = r.session_id
         /\ ret' = ReadResult(r)
    /\ pc' = "idle"
    /\ UNCHANGED <<connected, server_capabilities, attempt, last_exc, sleeps,
                   close_calls, handshake, started, pure>>

---------------------------------------------------------------------------

Next ==
    \/ ConnectBegin /\ UNCHANGED ids
    \/ ConnectAttempt /\ UNCHANGED ids
    \/ ConnectSleep /\ UNCHANGED ids
    \/ ConnectNotify /\ UNCHANGED ids
    \/ DisconnectBegin /\ UNCHANGED ids
    \/ DisconnectShutdown /\ UNCHANGED ids
    \/ DisconnectClose /\ UNCHANGED ids
    \/ CallToolBegin /\ UNCHANGED ids
    \/ CallToolSend /\ UNCHANGED ids
    \/ ListToolsBegin /\ UNCHANGED ids
    \/ ListToolsSend /\ UNCHANGED ids
    \/ ListResourcesBegin /\ UNCHANGED ids
    \/ ListResourcesSend /\ UNCHANGED ids
    \/ HealthCheckBegin /\ UNCHANGED ids
    \/ HealthCheckSend /\ UNCHANGED ids
    \/ ReadResourceBegin /\ UNCHANGED ids
    \/ ReadResourceSend /\ UNCHANGED ids

Spec == Init /\ [][Next]_vars

---------------------------------------------------------------------------
(* The client's pure conversions.                                          *)
(*                                                                         *)
(* Text is a sequence of tokens: a token stands for a run of characters    *)
(* that the code handles as a unit (a marker, a blank, a line break, a     *)
(* JSON text).                                                             *)

Whitespace == {" ", "\n"}

\* JSON texts and the documents they denote; "{r1" is cut short
JsonTexts == {"{r1}", "{r2}", "null"}

Doc(token) == CASE token = "{r1}" -> "r1"
                [] token = "{r2}" -> "r2"
                [] token = "null" -> None

Decoded(doc) == [ok |-> TRUE, doc |-> doc]

DecodeError == [ok |-> FALSE, doc |-> None]

\* json.loads / resp.json(): blanks around the one value are skipped;
\* anything else (no value, a cut value, text before or after it) raises
json_loads(text) ==
    LET w == SelectSeq(text, LAMBDA c : c \notin Whitespace) IN
    IF Len(w) = 1 /\ w[1] \in JsonTexts THEN Decoded(Doc(w[1]))
    ELSE DecodeError

RECURSIVE lstrip(_)
lstrip(text) ==
    IF text # <<>> /\ Head(text) \in Whitespace THEN lstrip(Tail(text))
    ELSE text

RECURSIVE rstrip(_)
rstrip(text) ==
    IF text # <<>> /\ text[Len(text)] \in Whitespace
    THEN rstrip(SubSeq(text, 1, Len(text) - 1))
    ELSE text

\* raw_line.strip()
strip(text) == rstrip(lstrip(text))

\* str.lower() on a token
lower(token) == CASE token = "DATA:" -> "data:"
                  [] token = "Text/Event-Stream" -> "text/event-stream"
                  [] OTHER -> token

\* sse_text.splitlines()
RECURSIVE splitlines(_)
splitlines(text) ==
    IF text = <<>> THEN <<>>
    ELSE LET breaks == {i \in 1..Len(text) : text[i] = "\n"} IN
         IF breaks = {} THEN <<text>>
         ELSE LET k == CHOOSE i \in breaks : \A j \in breaks : i <= j IN
              <<SubSeq(text, 1, k - 1)>>
                 \o splitlines(SubSeq(text, k + 1, Len(text)))

\* line 179: line.lower().startswith("data:"), line being stripped
IsDataLine(line) == line # <<>> /\ lower(Head(line)) = "data:"

\* line 180: payload = line[5:].lstrip()
Payload(line) == lstrip(Tail(line))

\* lines 177-185: the loop; a payload that does not parse is passed over
RECURSIVE ScanLines(_, _)
ScanLines(lines, data_obj) ==
    IF lines = <<>> THEN data_obj
    ELSE LET line == strip(Head(lines)) IN
         IF IsDataLine(line)
         THEN LET r == json_loads(Payload(line)) IN
              ScanLines(Tail(lines), IF r.ok THEN r.doc ELSE data_obj)
         ELSE ScanLines(Tail(lines), data_obj)

\* mutant of Fallback: without a data: payload decoding fails
Fallback_Missing(data_obj, sse_text) ==
    IF data_obj = None THEN DecodeError ELSE Decoded(data_obj)

\* lines 186-189: if data_obj is None: data_obj = json.loads(sse_text)
Fallback(data_obj, sse_text) ==
    IF data_obj = None THEN json_loads(sse_text) ELSE Decoded(data_obj)

_parse_sse_response(sse_text) ==
    Fallback(ScanLines(splitlines(sse_text), None), sse_text)

\* lines 142 and 145: content_type = (... or "").lower();
\* "text/event-stream" in content_type
IsEventStream(content_type) ==
    "text/event-stream" \in {lower(c) : c \in Range(content_type)}

\* lines 145-149: the document of a response, or the decode failure
Decode(content_type, text) ==
    IF IsEventStream(content_type) THEN _parse_sse_response(text)
    ELSE json_loads(text)

\* lines 111-117: request_data, a dict: its keys and what stands under them
request_data(method, params) ==
    [keys |-> {"jsonrpc", "id", "method"}
                 \cup (IF params.present THEN {"params"} ELSE {}),
     method |-> method, params |-> params]

\* line 119: MCPRequest(**request_data); a field not given gets its default
MCPRequest(data) ==
    [jsonrpc |-> "2.0", id |-> "uuid4", method |-> data.method,
     params |-> IF "params" \in data.keys THEN data.params ELSE NoResult]

\* mutant of model_dump: empty values are left out as well
model_dump_Truthy(model) ==
    [keys |-> {"jsonrpc", "id", "method"}
                 \cup (IF TruthyMap(model.params) THEN {"params"} ELSE {}),
     method |-> model.method, params |-> model.params]

\* line 120: model_dump(exclude_none=True), the JSON body of the post
model_dump(model) ==
    [keys |-> {"jsonrpc", "id", "method"}
                 \cup (IF model.params.present THEN {"params"} ELSE {}),
     method |-> model.method, params |-> model.params]

Encode(method, params) == model_dump(MCPRequest(request_data(method, params)))

---------------------------------------------------------------------------
(* SpecPure: each conversion applied once to an input from a bounded set.  *)

\* sequences over S of length 0..n
SeqsUpTo(S, n) == UNION {[1..k -> S] : k \in 0..n}

PropNames == {"p" \o ToString(i) : i \in 1..MaxProps}

\* a properties map: distinct names, in document order
PropertyLists ==
    {[i \in 1..Len(q) |-> Property(q[i], IF q[i] = "p1" THEN None ELSE "integer")] :
        q \in {q \in SeqsUpTo(PropNames, MaxProps) :
                 \A i, j \in 1..Len(q) : i # j => q[i] # q[j]}}

RequiredLists == SeqsUpTo(PropNames \cup {"other"}, MaxProps)

ToolDicts ==
    {[name |-> "t", inputSchema |-> NoSchema]}
    \cup {[name |-> "t", inputSchema |-> Schema(ps, rs)] :
            ps \in {Absent} \cup {Listed(q) : q \in PropertyLists},
            rs \in {Absent} \cup {Listed(q) : q \in RequiredLists}}

ToolLists ==
    {<<>>} \cup {<<t>> : t \in ToolDicts}
    \cup {<<t, SearchTool>> : t \in ToolDicts}
    \cup {<<SearchTool, t>> : t \in ToolDicts}

ContentTypes ==
    {<<>>, <<"application/json">>, <<"text/event-stream">>,
     <<"Text/Event-Stream", "; charset=utf-8">>}

BodyLines ==
    {<<"data:", " ", p>> : p \in JsonTexts \cup {"{r1"}}
    \cup {<<"DATA:", "{r2}">>, <<" ", "data:", " ", " ", "{r2}", " ">>,
          <<"event:", " ", "message">>, <<>>, <<"{r1}">>}

RECURSIVE Join(_)
Join(lines) ==
    IF lines = <<>> THEN <<>>
    ELSE IF Len(lines) = 1 THEN lines[1]
    ELSE lines[1] \o <<"\n">> \o Join(Tail(lines))

Bodies == {Join(ls) : ls \in SeqsUpTo(BodyLines, MaxLines)}

Methods ==
    {"initialize", "shutdown", "tools/list", "tools/call", "resources/list",
     "resources/read"}

ParamMaps == {NoResult, EmptyMap, CapsResult}

PureInputs ==
    {[fn |-> "list_tools", tools_data |-> ts] : ts \in ToolLists}
    \cup {[fn |-> "decode", content_type |-> ct, text |-> b] :
            ct \in ContentTypes, b \in Bodies}
    \cup {[fn |-> "encode", method |-> m, params |-> ps] :
            m \in Methods, ps \in ParamMaps}

Result(value) == [done |-> TRUE, value |-> value]

InitPure ==
    /\ Constructed
    /\ arg \in PureInputs
    /\ out = NoOut
    /\ uuid_calls = 0
    /\ posted_ids = <<>>
    /\ reply = NoReply
    /\ threads = [t \in Callers |-> Outside]
    /\ sessions = NoSessions
    /\ answer = NoAnswer
    /\ cache = {}
    /\ call = NoSave
    /\ latest = NothingSaved

Apply(fn, value) ==
    /\ arg.fn = fn
    /\ ~out.done
    /\ out' = Result(value)
    /\ UNCHANGED <<connected, server_capabilities, session_id, pool_open, pc,
                   attempt, last_exc, wire, sleeps, close_calls, ret, received,
                   last, handshake, started, arg, ids, threads, mock,
                   collector>>

ApplyParseTools ==
    /\ arg.fn = "list_tools"
    /\ Apply("list_tools", ParseTools(arg.tools_data))

ApplyDecode ==
    /\ arg.fn = "decode"
    /\ Apply("decode", Decode(arg.content_type, arg.text))

ApplyEncode ==
    /\ arg.fn = "encode"
    /\ Apply("encode", Encode(arg.method, arg.params))

NextPure ==
    \/ ApplyParseTools
    \/ ApplyDecode
    \/ ApplyEncode

SpecPure == InitPure /\ [][NextPure]_vars

---------------------------------------------------------------------------
(* Correlation ids.  SpecIds runs the calls of Spec and follows the id     *)
(* member of every message they post, for a server that sets no session   *)
(* header and a client that posts at most MaxPosted messages.             *)

\* messages one client posts in its lifetime
MaxPosted == 4

\* a step that posts a message
Posts == Len(wire') = Len(wire) + 1

\* uuid.uuid4(): the value of the call after `calls` earlier ones; two calls
\* are taken never to give the same value
uuid4(calls) == "u" \o ToString(calls + 1)

\* mutant of RequestId: the id is made once and reused by every request
RequestId_Reused(calls) == uuid4(0)

\* line 113: "id": str(uuid.uuid4()), evaluated in every call of
\* _send_request
RequestId(calls) == uuid4(calls)

\* lines 193-195: the dict of a notification has no id member
NotificationId == None

\* the id a server may put into the response envelope to a request: that
\* of the request, or another string
ResponseIds(id) == {id, "test-id"}

\* lines 152-158: what _send_request handed on of the response to the
\* request with this id, ok telling whether it returned
Reply(id, rid, ok) ==
    [request |-> id, response |-> IF ok THEN rid ELSE None, delivered |-> ok]

\* the server sets no mcp-session-id header
NoSessionHeader == last.sid = None

\* the ids of the message a step posts, if it posts one
IdsTrack ==
    IF Posts
    THEN /\ Len(posted_ids) < MaxPosted
         /\ IF wire'[Len(wire')].kind = "request"
            THEN /\ uuid_calls' = uuid_calls + 1
                 /\ posted_ids' = Append(posted_ids, RequestId(uuid_calls))
                 /\ \E rid \in ResponseIds(RequestId(uuid_calls)) :
                        reply' = Reply(RequestId(uuid_calls), rid,
                                       wire'[Len(wire')].ok)
            ELSE /\ posted_ids' = Append(posted_ids, NotificationId)
                 /\ UNCHANGED <<uuid_calls, reply>>
    ELSE UNCHANGED ids

Tracked == NoSessionHeader' /\ IdsTrack

NextIds ==
    \/ ConnectBegin /\ Tracked
    \/ ConnectAttempt /\ Tracked
    \/ ConnectSleep /\ Tracked
    \/ ConnectNotify /\ Tracked
    \/ DisconnectBegin /\ Tracked
    \/ DisconnectShutdown /\ Tracked
    \/ DisconnectClose /\ Tracked
    \/ CallToolBegin /\ Tracked
    \/ CallToolSend /\ Tracked
    \/ ListToolsBegin /\ Tracked
    \/ ListToolsSend /\ Tracked
    \/ ListResourcesBegin /\ Tracked
    \/ ListResourcesSend /\ Tracked
    \/ HealthCheckBegin /\ Tracked
    \/ HealthCheckSend /\ Tracked
    \/ ReadResourceBegin /\ Tracked
    \/ ReadResourceSend /\ Tracked

SpecIds == Init /\ [][NextIds]_vars

---------------------------------------------------------------------------
(* The connection lifecycle alone.  SpecLifecycle is a caller that only   *)
(* connects and disconnects, against a server that sets no session        *)
(* header, with every step of connect() taken once it can be: each        *)
(* exchange and each sleep of the call ends (requests' timeout,           *)
(* time.sleep), and the caller's thread runs on.                          *)

Untracked == NoSessionHeader' /\ UNCHANGED ids

NextLifecycle ==
    \/ ConnectBegin /\ Untracked
    \/ ConnectAttempt /\ Untracked
    \/ ConnectSleep /\ Untracked
    \/ ConnectNotify /\ Untracked
    \/ DisconnectBegin /\ Untracked
    \/ DisconnectShutdown /\ Untracked
    \/ DisconnectClose /\ Untracked

SpecLifecycle ==
    /\ Init
    /\ [][NextLifecycle]_vars
    /\ WF_vars(ConnectAttempt /\ Untracked)
    /\ WF_vars(ConnectSleep /\ Untracked)
    /\ WF_vars(ConnectNotify /\ Untracked)

---------------------------------------------------------------------------
(* Two callers on one client.  SpecShared runs _send_request for two      *)
(* callers that share the client object: each call is split where the     *)
(* caller may be suspended, after it built its headers (line 123) and     *)
(* after session.post returned (line 133).  The client takes no lock, so  *)
(* the steps of the two callers interleave freely.                        *)

\* what SpecShared leaves alone
SharedFrame ==
    UNCHANGED <<connected, server_capabilities, pool_open, pc, attempt,
                last_exc, wire, sleeps, close_calls, ret, received, last,
                handshake, started, arg, out, ids, mock, collector>>

Other(t) == CHOOSE u \in Callers : u # t

\* line 123: headers = self._make_headers(), a read of self.session_id
SharedHeaders(t) ==
    /\ threads[t].pc = "idle"
    /\ threads' = [threads EXCEPT ![t] =
                      [Outside EXCEPT !.pc = "post",
                                      !.headers = _make_headers(session_id)]]
    /\ UNCHANGED session_id
    /\ SharedFrame

\* lines 128-134: the request goes out with the headers built before, and
\* the response, if one comes and its status is no error, is at hand
SharedPost(t) ==
    /\ threads[t].pc = "post"
    /\ \E o \in Outcomes :
           threads' = [threads EXCEPT
               ![t].pc = IF PostRaised(o) \/ raise_for_status(o)
                         THEN "idle" ELSE "store",
               ![t].posted = TRUE,
               ![t].held = session_id,
               ![t].sid = o.sid]
    /\ UNCHANGED session_id
    /\ SharedFrame

\* lines 137-140: sid = resp.headers.get(...); if sid: self.session_id = sid
SharedStore(t) ==
    /\ threads[t].pc = "store"
    /\ session_id' = StoreSession(session_id, threads[t].sid)
    /\ threads' = [threads EXCEPT
           ![t].pc = "idle",
           ![Other(t)].overtaken =
               @ \/ (Truthy(threads[t].sid) /\ threads[Other(t)].pc = "post")]
    /\ SharedFrame

NextShared ==
    \/ \E t \in Callers : SharedHeaders(t)
    \/ \E t \in Callers : SharedPost(t)
    \/ \E t \in Callers : SharedStore(t)

SpecShared == Init /\ [][NextShared]_vars

---------------------------------------------------------------------------
(* The mock server (scripts/mock_mcp_server.py).  SpecMock is the server  *)
(* handling one POST after the other: MCPHandler.do_POST.                 *)

\* sessions the server creates
MaxSessions == 2

\* the session ids the server mints, in the order it mints them
SessionIds == {"m" \o ToString(i) : i \in 1..MaxSessions}

\* line 40: str(uuid.uuid4()).replace("-", ""), an id the server has not
\* given out before
MintSession(sess) == "m" \o ToString(Cardinality(sess.known) + 1)

\* the mcp-session-id header of a request: none, empty, a token of another
\* server, or an id this server mints
MockHeaders == {None, ""} \cup Tokens \cup SessionIds

\* the methods the server routes, and one it does not
MockMethods ==
    {"initialize", "notifications/initialized", "tools/list", "tools/call",
     "resources/list"}

ToolNames == {"jira_search", "no_such_tool"}

\* a POST: its path, whether its body is JSON, the method member, the
\* session header and, for tools/call, the tool's name
MockRequests ==
    [path : {"/mcp/", "/health"}, json : BOOLEAN,
     method : (MockMethods \ {"tools/call"}) \cup {"shutdown"},
     header : MockHeaders, tool : {""}]
    \cup
    [path : {"/mcp/"}, json : {TRUE}, method : {"tools/call"},
     header : MockHeaders, tool : ToolNames]

\* lines 38-41: the session of the request, created when it presents none
SessionOf(sess, req) ==
    IF Truthy(req.header) THEN req.header ELSE MintSession(sess)

Created(sess, req) ==
    IF Truthy(req.header) THEN sess
    ELSE [sess EXCEPT !.known = @ \cup {MintSession(sess)}]

\* line 71: self.sessions[session_id]["initialized"] = True raises KeyError
\* for a session the server does not hold
KnowsSession(sess, sid) == sid \in sess.known

\* lines 49-64: the member the response envelope carries, or the exception
\* the handler of the method raised
Route(sess, req) ==
    IF req.method = "initialize"
    THEN IF KnowsSession(sess, SessionOf(sess, req)) THEN "result"
         ELSE "KeyError"
    ELSE IF req.method \in {"notifications/initialized", "tools/list",
                            "resources/list"}
    THEN "result"
    ELSE IF req.method = "tools/call"
    THEN IF req.tool = "jira_search" THEN "result" ELSE "error"
    ELSE "error"

\* handle_initialize, line 71
Initialized(sess, req) ==
    IF req.method = "initialize" /\ KnowsSession(sess, SessionOf(sess, req))
    THEN [sess EXCEPT !.initialized = @ \cup {SessionOf(sess, req)}]
    ELSE sess

\* what went back to the client: send_error (lines 24, 34), nothing when
\* the handler raised (the connection is closed), or send_sse_response
Answer(req, kind, status, ctype, sid, body, minted) ==
    [handled |-> TRUE, request |-> req, kind |-> kind, status |-> status,
     ctype |-> ctype, sid |-> sid, body |-> body, minted |-> minted]

do_POST(sess, req) ==
    IF req.path # "/mcp/"
    THEN Answer(req, "response", 404, "text/html", None, "Not Found", FALSE)
    ELSE IF ~req.json
    THEN Answer(req, "response", 400, "text/html", None, "Invalid JSON",
                FALSE)
    ELSE IF Route(Created(sess, req), req) = "KeyError"
    THEN Answer(req, "none", 0, "", None, "KeyError", FALSE)
    ELSE Answer(req, "response", 200, "text/event-stream",
                SessionOf(sess, req), Route(Created(sess, req), req),
                ~Truthy(req.header))

\* MCPHandler.sessions after the request
SessionsAfter(sess, req) ==
    IF req.path # "/mcp/" \/ ~req.json THEN sess
    ELSE Initialized(Created(sess, req), req)

MockPost ==
    /\ \E req \in MockRequests :
         /\ SessionsAfter(sessions, req).known \subseteq SessionIds
         /\ answer' = do_POST(sessions, req)
         /\ sessions' = SessionsAfter(sessions, req)
    /\ UNCHANGED <<connected, server_capabilities, session_id, pool_open, pc,
                   attempt, last_exc, wire, sleeps, close_calls, ret,
                   received, last, handshake, started, arg, out, ids,
                   threads, collector>>

NextMock == MockPost

SpecMock == Init /\ [][NextMock]_vars

---------------------------------------------------------------------------
(* The collector's cache (app/mcp/jira_collector.py; the Confluence        *)
(* collector's save_to_cache has the same body).  SpecCache is a caller   *)
(* saving lists of issues, one call after the other; saving one issue     *)
(* and committing may fail.                                               *)

\* issues in one call of save_to_cache
MaxIssues == 2

\* __init__, line 33
batch_size == 50

\* a JiraIssue: its key and the rest of its fields
Issues == [key : IssueKeys, data : IssueData]

IssueLists == SeqsUpTo(Issues, MaxIssues)

\* line 203: range(0, len(issues), self.batch_size), the start after i
MoreBatches(issues, i) == i + batch_size < Len(issues)

\* line 206: batch = issues[i:i + self.batch_size]
Batch(issues, i) ==
    SubSeq(issues, i + 1,
           IF i + batch_size < Len(issues) THEN i + batch_size
           ELSE Len(issues))

\* mutant of InsertOrReplace: the row is added next to the rows there are
InsertOrReplace_Insert(rows, issue) == rows \cup {issue}

\* _save_single_issue, lines 231-236: INSERT OR REPLACE INTO jira_issues,
\* issue_key being the table's PRIMARY KEY (line 67): a row with the same
\* key is deleted before the new one is inserted
InsertOrReplace(rows, issue) ==
    {r \in rows : r.key # issue.key} \cup {issue}

\* mutant of Counted: every item the loop went through is counted
Counted_All(saved_count, ok) == saved_count + 1

\* lines 209-213: saved_count += 1 is reached only when _save_single_issue
\* returned; the handler logs and the loop goes on
Counted(saved_count, ok) == IF ok THEN saved_count + 1 ELSE saved_count

\* the data of the last successful save of key k among the attempts, or
\* what was there before
RECURSIVE LastSaved(_, _, _)
LastSaved(attempts, k, earlier) ==
    IF attempts = <<>> THEN earlier
    ELSE LET a == attempts[Len(attempts)] IN
         IF a.ok /\ a.issue.key = k THEN a.issue.data
         ELSE LastSaved(SubSeq(attempts, 1, Len(attempts) - 1), k, earlier)

CacheFrame ==
    UNCHANGED <<connected, server_capabilities, session_id, pool_open, pc,
                attempt, last_exc, wire, sleeps, close_calls, ret, received,
                last, handshake, started, arg, out, ids, threads, mock>>

\* lines 192-201: an empty list returns 0 at once; else the connection is
\* opened, which may fail (the outer handler logs and raises again)
SaveBegin ==
    /\ call.pc = "idle"
    /\ \E issues \in IssueLists, opened \in BOOLEAN :
         call' = IF issues = <<>>
                 THEN [NoSave EXCEPT !.status = "returned"]
                 ELSE IF ~opened
                 THEN [NoSave EXCEPT !.issues = issues, !.before = cache,
                                     !.status = "raised"]
                 ELSE [NoSave EXCEPT !.pc = "items", !.issues = issues,
                                     !.j = 1, !.before = cache,
                                     !.status = "running"]
    /\ UNCHANGED <<cache, latest>>
    /\ CacheFrame

\* lines 208-213: one pass of the inner loop
SaveItem ==
    /\ call.pc = "items"
    /\ LET batch == Batch(call.issues, call.i)
           issue == batch[call.j]
       IN \E ok \in BOOLEAN :
            /\ cache' = IF ok THEN InsertOrReplace(cache, issue) ELSE cache
            /\ call' = [call EXCEPT
                 !.saved_count = Counted(@, ok),
                 !.attempts = Append(@, [issue |-> issue, ok |-> ok]),
                 !.j = IF call.j < Len(batch) THEN call.j + 1 ELSE 1,
                 !.i = IF call.j < Len(batch) THEN call.i
                       ELSE call.i + batch_size,
                 !.pc = IF call.j < Len(batch)
                           \/ MoreBatches(call.issues, call.i)
                        THEN "items" ELSE "commit"]
    /\ UNCHANGED latest
    /\ CacheFrame

\* lines 215-221: conn.commit() and return saved_count, or the commit
\* raises: the with block rolls the transaction back and the handler
\* raises again
SaveCommit ==
    /\ call.pc = "commit"
    /\ \E ok \in BOOLEAN :
         IF ok
         THEN /\ call' = [call EXCEPT !.pc = "idle", !.status = "returned",
                                      !.value = call.saved_count]
              /\ latest' = [k \in IssueKeys |->
                               LastSaved(call.attempts, k, latest[k])]
              /\ UNCHANGED cache
         ELSE /\ call' = [call EXCEPT !.pc = "idle", !.status = "raised"]
              /\ cache' = call.before
              /\ UNCHANGED latest
    /\ CacheFrame

NextCache ==
    \/ SaveBegin
    \/ SaveItem
    \/ SaveCommit

SpecCache == Init /\ [][NextCache]_vars

---------------------------------------------------------------------------
(* Properties.                                                             *)

\* the handshake requests of the current call, in the order they were posted
Handshakes == SelectSeq(wire, LAMBDA m : m.method = "initialize")

\* whether each of them completed without raising
HandshakeOks == [i \in 1..Len(Handshakes) |-> Handshakes[i].ok]

\* the call of op has ended and no other call has begun
Finished(op) == pc = "idle" /\ ret.op = op

\* the last message posted in the current call
LastSent == wire[Len(wire)]

C1_Scenario ==
    /\ Finished("connect")
    /\ started.fresh
    /\ HandshakeOks = <<FALSE, FALSE, TRUE>>

\* C1: on a fresh client, when the handshake fails on attempts 1 and 2 and
\* succeeds on attempt 3, connect() has slept exactly twice, 1 then 2, has
\* returned True, the client is Connected, and if the successful response
\* carried a (non-empty) session header the session token is that value.
C1_RetryThenSuccess ==
    C1_Scenario =>
        /\ sleeps = <<1, 2>>
        /\ ret = Returned("connect", TRUE, <<>>)
        /\ connected
        /\ (Truthy(handshake) => session_id = handshake)

C1_Witness == C1_Scenario /\ handshake \in Tokens

C2_Scenario ==
    /\ Finished("connect")
    /\ started.fresh
    /\ Len(Handshakes) >= 3
    /\ \A i \in 1..3 : ~Handshakes[i].ok

\* C2: on a fresh client, when the handshake fails on all 3 attempts,
\* connect() raises, the client is Disconnected, exactly 3 messages were
\* posted and exactly 2 sleeps occurred, 1 then 2 (none after the last
\* failure, the delay 4 unused).
C2_AllAttemptsFail ==
    C2_Scenario =>
        /\ ret.status = "raised"
        /\ ~connected
        /\ Len(wire) = 3
        /\ sleeps = <<1, 2>>

C2_Witness == C2_Scenario /\ ret.status = "raised"

\* C3: connect() posts exactly once per handshake attempt and nothing else:
\* one POST when the first attempt succeeds, three when attempts 1 and 2
\* fail and attempt 3 succeeds.
C3_OnePostPerAttempt ==
    Finished("connect") =>
        /\ Len(wire) = Len(Handshakes)
        /\ (HandshakeOks = <<TRUE>> => Len(wire) = 1)
        /\ (HandshakeOks = <<FALSE, FALSE, TRUE>> => Len(wire) = 3)

\* the latest exchange was a well-formed response carrying an error object
ProtocolError ==
    /\ last.answered
    /\ last.status = 200
    /\ last.parses
    /\ last.error.present

\* C4: during connect(), a well-formed handshake response carrying an error
\* object is not retried: no sleep and no further handshake follows it.
C4_ProtocolErrorNotRetried ==
    (ret.op = "connect" /\ last.method = "initialize" /\ ProtocolError)
        => (pc = "idle" /\ ret.status = "raised")

\* C5: call_tool never raises: whenever its exchange fails it returns a
\* result with the error flag set and exactly one text item describing the
\* failure, whose text holds the server's message on a protocol error.
C5_CallToolNeverRaises ==
    Finished("call_tool") =>
        /\ ret.status = "returned"
        /\ ~LastSent.ok =>
              /\ ret.flag
              /\ Len(ret.content) = 1
              /\ ret.content[1].type = "text"
              /\ "Error:" \in Range(ret.content[1].text)
              /\ (ProtocolError =>
                    last.error.message \in Range(ret.content[1].text))

C5_Witness ==
    /\ Finished("call_tool")
    /\ ~LastSent.ok
    /\ ProtocolError

\* C6: a message posted before any response carried a (non-empty) session
\* header has no session header, and a message posted right after a response
\* set the session token carries exactly that token.
C6_SessionAttached ==
    [][Posts =>
         LET m == wire'[Len(wire')] IN
         /\ (received = {} => m.sid = None)
         /\ (Truthy(session_id) => m.sid = session_id)
         /\ (last.answered /\ Truthy(last.sid) /\ session_id = last.sid
               => m.sid = last.sid)]_vars

\* the second message of a call carries the token the first response set
C6_Witness ==
    /\ Len(wire) >= 2
    /\ wire[1].sid = None
    /\ wire[1].ok
    /\ wire[2].sid \in Tokens

\* C7: the session token is unset or a value an earlier response carried in
\* its session header, and so is every session header the client has sent.
C7_NoFabricatedToken ==
    /\ session_id \in {None} \cup received
    /\ \A i \in 1..Len(wire) : wire[i].sid \in {None} \cup received

C7_Witness ==
    /\ session_id \in Tokens
    /\ Len(wire) >= 1
    /\ LastSent.sid \in Tokens

\* C8 as stated: whenever a response carries a session header, whatever its
\* status or body and whether it answers a request or a notification, the
\* session token afterwards equals the header's value.
C8_EveryResponseStores ==
    (last.answered /\ last.sid # None) => session_id = last.sid

\* C8, amended: whenever a response that answers a request, with a status
\* raise_for_status accepts, carries a non-empty session header, the session
\* token afterwards equals the header's value, whatever the body and
\* whatever token was held before.
C8_AcceptedResponseStores ==
    (/\ last.kind = "request"
     /\ last.answered
     /\ last.status < 400
     /\ Truthy(last.sid))
        => session_id = last.sid

\* a response with a malformed body overwrites a different token
C8_Witness ==
    /\ last.kind = "request"
    /\ last.answered
    /\ last.status < 400
    /\ ~last.parses
    /\ last.sid \in Tokens
    /\ Len(wire) >= 1
    /\ LastSent.sid \in Tokens
    /\ LastSent.sid # last.sid

\* C9: disconnect() never raises and leaves the client Disconnected, also
\* when called twice in a row, on a never-connected client, or after a
\* connect() that failed, whatever the transport does.
C9_DisconnectNeverRaises ==
    Finished("disconnect") =>
        /\ ret.status = "returned"
        /\ ~connected

\* the second of two disconnect() calls in a row
C9_Witness ==
    /\ Finished("disconnect")
    /\ started.after_disconnect

\* C10: disconnect() sends a shutdown request if and only if the client is
\* Connected when it is called, and always ends with the client Disconnected
\* and the HTTP session closed.
C10_DisconnectShutdown ==
    Finished("disconnect") =>
        /\ started.connected =>
              (Len(wire) = 1 /\ wire[1].method = "shutdown"
                 /\ wire[1].kind = "request")
        /\ ~started.connected => wire = <<>>
        /\ ~connected
        /\ ~pool_open
        /\ close_calls = 1

\* the shutdown request failed
C10_Witness ==
    /\ Finished("disconnect")
    /\ started.connected
    /\ Len(wire) = 1
    /\ ~wire[1].ok

\* the places in the wire log of the current call that hold a notification
Notifications == {i \in 1..Len(wire) : wire[i].kind = "notification"}

C12_FailedConnectDisconnected ==
    (Finished("connect") /\ ret.status = "raised") => ~connected

\* the one exchange of a finished call succeeded and its result has no
\* member named key (or the response has no result at all)
LacksKey(key) ==
    /\ wire[1].ok
    /\ (~last.result.present \/ key \notin last.result.keys)

\* the finished call posted one request of the method, without params
OneBareRequest(method) ==
    /\ Len(wire) = 1
    /\ wire[1].kind = "request"
    /\ wire[1].method = method
    /\ ~wire[1].params

\* C13: list_tools and list_resources send a request without a params
\* member; when the successful response's result lacks the expected key
\* (tools / resources) or there is no result, they return an empty list,
\* not an error.
C13_ListDefaults ==
    /\ Finished("list_tools") =>
          /\ OneBareRequest("tools/list")
          /\ LacksKey("tools") =>
                (ret.status = "returned" /\ ret.content = <<>>)
    /\ Finished("list_resources") =>
          /\ OneBareRequest("resources/list")
          /\ LacksKey("resources") =>
                (ret.status = "returned" /\ ret.content = <<>>)

\* list_tools was answered with a result that has other members only
C13_Witness ==
    /\ Finished("list_tools")
    /\ LacksKey("tools")
    /\ last.result = CapsResult

\* the server's descriptor of tool k of a flattened listing, the Tool made
\* of it and the entries of the descriptor's properties map
C14_Tool(k) == out.value[k]

C14_Properties(k) == arg.tools_data[k].inputSchema.properties.entries

C14_Required(k) == arg.tools_data[k].inputSchema.required

C15_HealthCheck ==
    Finished("health_check") =>
        /\ ret.status = "returned"
        /\ OneBareRequest("tools/list")
        /\ ret.flag <=> wire[1].ok
        /\ ret.flag => ret.content = <<>>
        /\ ~ret.flag =>
              /\ Len(ret.content) = 1
              /\ ret.content[1] # NoExc
              /\ ~last.answered =>
                    ret.content[1][1] = "Failed to communicate with MCP server"
              /\ ProtocolError => ret.content[1] = ProtocolFailure(last.error)

\* the first call on a client is a health_check that the server answers
\* with an error object
C15_Witness ==
    /\ Finished("health_check")
    /\ started.fresh
    /\ ~connected
    /\ ProtocolError
    /\ ~ret.flag

\* the content items of the response a finished read_resource received
C16_Contents == GetContents(last.result)

\* C16: read_resource returns the text of the response's first content item
\* when the item has a text member, otherwise the item's blob, and nothing
\* when the server returned no content items; later items have no influence.
C16_FirstItemPayload ==
    (Finished("read_resource") /\ wire[1].ok) =>
        /\ ret.status = "returned"
        /\ ret.content =
              IF C16_Contents = <<>> THEN <<None>>
              ELSE IF C16_Contents[1].text # None
              THEN <<C16_Contents[1].text>>
              ELSE <<C16_Contents[1].blob>>

\* the data: lines of the body handed to the decoder, stripped, in order
DataLines ==
    SelectSeq([i \in 1..Len(splitlines(arg.text)) |->
                  strip(splitlines(arg.text)[i])],
              IsDataLine)

\* an event-stream response was decoded
DecodedEventStream ==
    /\ arg.fn = "decode"
    /\ out.done
    /\ IsEventStream(arg.content_type)

\* C17: for every event-stream body with more than one data: line, decoding
\* returns the payload of the last data: line and of no other line.
C17_LastDataLine ==
    (DecodedEventStream /\ Len(DataLines) > 1) =>
        out.value = json_loads(Payload(DataLines[Len(DataLines)]))

\* C18: an event-stream body without a data: line is parsed as a whole, as
\* one JSON document; a body whose content type is not event-stream is
\* parsed directly as JSON and the document is handed on unchanged.
C18_WholeBody ==
    /\ (DecodedEventStream /\ DataLines = <<>>) =>
          out.value = json_loads(arg.text)
    /\ (arg.fn = "decode" /\ out.done /\ ~IsEventStream(arg.content_type)) =>
          out.value = json_loads(arg.text)

\* an event-stream body of an event: line's worth of blanks and one bare
\* JSON document
C18_Witness ==
    /\ DecodedEventStream
    /\ DataLines = <<>>
    /\ Len(splitlines(arg.text)) > 1
    /\ out.value = Decoded("r1")

\* the latest exchange was a request answered 2xx with a body that does
\* not decode
DecodeFailed ==
    /\ last.kind = "request"
    /\ last.answered
    /\ last.status < 400
    /\ ~last.parses

C20_ParamsPresence ==
    (arg.fn = "encode" /\ out.done) =>
        /\ "params" \notin out.value.keys <=> ~arg.params.present
        /\ arg.params = EmptyMap =>
              ("params" \in out.value.keys /\ out.value.params = EmptyMap)

\* an empty map was encoded
C20_Witness ==
    /\ arg.fn = "encode"
    /\ out.done
    /\ arg.params = EmptyMap
    /\ "params" \in out.value.keys

\* the content and isError members of the result a finished call_tool
\* received, as the server sent them
C28_ServerContent ==
    IF "content" \in last.result.keys THEN last.result.content ELSE <<>>

C28_ServerIsError == "isError" \in last.result.keys /\ last.result.isError

\* C28: for a successful tools/call exchange call_tool returns the server's
\* content items in the server's order, none added, dropped or reordered,
\* and its error flag equals the server's isError (false when the server
\* sent none); the error flag is true whenever the call failed.
C28_ContentPreserved ==
    Finished("call_tool") =>
        /\ wire[1].ok =>
              /\ Len(ret.content) = Len(C28_ServerContent)
              /\ \A i \in 1..Len(ret.content) :
                    ret.content[i] = C28_ServerContent[i]
              /\ ret.flag <=> C28_ServerIsError
        /\ ~wire[1].ok => ret.flag

\* two items came back, "t2" first, without an isError member
C28_Witness ==
    /\ Finished("call_tool")
    /\ wire[1].ok
    /\ "isError" \notin last.result.keys
    /\ ret.content = <<TextItem(<<"t2">>), TextItem(<<"t1">>)>>
    /\ ~ret.flag

\* C27: each invocation of call_tool performs exactly one request exchange,
\* whether it succeeds or fails; a failed tool call is never sent again.
C27_OneExchangePerCall ==
    Finished("call_tool") =>
        /\ Len(wire) = 1
        /\ wire[1].kind = "request"
        /\ wire[1].method = "tools/call"
        /\ last.sent <= 1

\* the server answered the tool call with status 500
C27_Witness ==
    /\ Finished("call_tool")
    /\ last.answered
    /\ last.status \in status_forcelist
    /\ last.sent = 1
    /\ ret.flag

\* the latest exchange was a request whose decoded response carries an
\* error object
ErrorDelivered == last.kind = "request" /\ ProtocolError

TransientFailure ==
    /\ last.kind = "request"
    /\ (~last.answered \/ DecodeFailed)

\* C25: connection refusal, timeout and malformed / non-JSON responses are
\* retried during connect() (the failed handshake attempt is followed by
\* another one while attempts remain) and in no other operation: elsewhere
\* such a failure causes exactly one send and surfaces to the caller.
C25_RetriedOnlyInConnect ==
    TransientFailure =>
        /\ ~LastSent.ok
        /\ ret.op = "connect" =>
              /\ Len(wire) < Len(retry_delays) =>
                    /\ pc \in {"connect_sleep", "connect_try"}
                    /\ ret.status = "running"
              /\ pc = "connect_sleep" =>
                    (attempt = Len(wire) /\ Len(sleeps) = attempt - 1)
              /\ pc = "connect_try" =>
                    (attempt = Len(wire) + 1 /\ Len(sleeps) = Len(wire))
              /\ Len(wire) = Len(retry_delays) =>
                    (pc = "idle" /\ ret.status = "raised")
        /\ ret.op # "connect" =>
              /\ Len(wire) = 1
              /\ pc \in {"idle", "disconnect_close"}

\* connect() about to make its third attempt, the second having met a
\* refused connection
C25_Witness ==
    /\ ret.op = "connect"
    /\ pc = "connect_try"
    /\ attempt = Len(retry_delays)
    /\ TransientFailure
    /\ last.sent = 0
    /\ sleeps = <<1, 2>>

\* the error of the latest exchange, as _send_request raised it (a body
\* that does not decode raises one of two, by the path that read it)
LastErrors ==
    IF ~last.answered
    THEN {CommFailure(IF last.sent = 0 THEN "ConnectionError" ELSE "Timeout")}
    ELSE IF last.status >= 400 THEN {CommFailure("HTTPError")}
    ELSE IF ~last.parses
    THEN {<<"JSONDecodeError">>, CommFailure("JSONDecodeError")}
    ELSE IF last.error.present THEN {ProtocolFailure(last.error)}
    ELSE {<<"ValidationError">>}

\* C26: when all attempts of connect() fail, the failure it raises is a
\* connection-establishment failure (its message holds "Failed to connect
\* to MCP server") that wraps the error of the last attempt, not of an
\* earlier one.
C26_WrapsLastError ==
    (Finished("connect") /\ ret.status = "raised") =>
        /\ Len(wire) = Len(retry_delays)
        /\ ret.exc[1] = "Failed to connect to MCP server"
        /\ Tail(ret.exc) \in LastErrors

\* the last attempt was answered with an error object
C26_Witness ==
    /\ Finished("connect")
    /\ ret.status = "raised"
    /\ ProtocolError
    /\ last_exc = NoExc
    /\ ret.exc = ConnectFailure(ProtocolFailure(last.error))

\* this step posts a request that is answered 2xx with an undecodable body
DecodeFailureStep ==
    /\ Posts
    /\ last'.kind = "request"
    /\ last'.answered
    /\ last'.status < 400
    /\ ~last'.parses

\* the positions at which a call posts its request
SendPositions ==
    {"connect_try", "disconnect_shutdown", "call_tool_send", "list_tools_send",
     "list_resources_send", "health_check_send", "read_resource_send"}

\* C24: an exchange that fails with a decode error leaves the connection
\* state and the recorded capabilities as they were (disconnect() ends
\* Disconnected, as after any other shutdown exchange), and the call made
\* next on the client is sent and can succeed.
C24_DecodeFailureFrame ==
    [][/\ DecodeFailureStep =>
             /\ server_capabilities' = server_capabilities
             /\ connected' = IF ret.op = "disconnect" THEN FALSE ELSE connected
       /\ (started.after_decode_failure /\ pc \in SendPositions) => Posts]_vars

\* a tool call made after an undecodable response succeeded on the client,
\* which is still Connected with its capabilities
C24_Witness ==
    /\ Finished("call_tool")
    /\ started.after_decode_failure
    /\ wire[1].ok
    /\ ~ret.flag
    /\ connected
    /\ server_capabilities = CapsResult

\* C29: a session token is scoped to one connection: after disconnect() the
\* handshake request of the next connect() on the same client does not
\* carry the token obtained during the earlier connection.
C29_TokenNotReused ==
    (ret.op = "connect" /\ started.after_disconnect /\ Len(wire) >= 1) =>
        wire[1].sid = None

\* the place in posted_ids of the i-th message of the current call
Place(i) == Len(posted_ids) - Len(wire) + i

\* C21: every request that expects a response carries an id that differs
\* from the id of every other message the client has posted, the repeated
\* handshake requests of one connect() included, and notifications carry
\* no id.
C21_UniqueIds ==
    /\ \A i, j \in 1..Len(posted_ids) :
           (i # j /\ posted_ids[i] # None) => posted_ids[i] # posted_ids[j]
    /\ Len(wire) <= Len(posted_ids)
    /\ \A i \in 1..Len(wire) :
           (wire[i].kind = "notification") <=> (posted_ids[Place(i)] = None)

\* a connect() whose handshake succeeded at the third attempt has posted
\* three handshake requests with three ids and a notification without one
C21_Witness ==
    /\ Finished("connect")
    /\ HandshakeOks = <<FALSE, FALSE, TRUE>>
    /\ Len(wire) = 4
    /\ \A i \in 1..3 : posted_ids[Place(i)] # None
    /\ posted_ids[Place(4)] = None

\* C22: a response envelope is delivered to the caller of a request only
\* if its id equals the id of that request.
C22_IdMatches ==
    reply.delivered => reply.response = reply.request

\* the request a caller posted carried another session header than the
\* client's token called for when it was posted
Stale(t) ==
    /\ threads[t].posted
    /\ threads[t].headers # (IF Truthy(threads[t].held) THEN threads[t].held
                             ELSE None)

\* C30: with two callers interleaved on one client a request can go out
\* with a session token older than the one most recently stored from a
\* response: nothing serialises the read of the token (headers) and its
\* write (store), and a request is stale exactly because the other caller
\* stored a token between this caller's building its headers and its post.
C30_StaleOnlyWhenOvertaken ==
    \A t \in Callers : Stale(t) => threads[t].overtaken

\* a request was posted with an earlier token while the client already
\* held a later one
C30_Witness ==
    \E t \in Callers :
        /\ Stale(t)
        /\ Truthy(threads[t].headers)
        /\ Truthy(threads[t].held)

\* C32: a client can be used again: once disconnect() has ended connect()
\* can be called, and a connect() called after a disconnect() whose
\* handshake is answered with a result returns True and leaves the client
\* Connected over a pooled connection, however many connect()/disconnect()
\* rounds went before.
C32_Reusable ==
    /\ Finished("disconnect") => ENABLED (ConnectBegin /\ UNCHANGED ids)
    /\ (/\ Finished("connect")
        /\ started.after_disconnect
        /\ HandshakeOks = <<TRUE>>)
           => /\ ret = Returned("connect", TRUE, <<>>)
              /\ connected
              /\ pool_open

\* a client that was used before (a response gave it a session token), was
\* Disconnected by disconnect(), and is Connected again by the connect()
\* that followed
C32_Witness ==
    /\ Finished("connect")
    /\ started.after_disconnect
    /\ ~started.connected
    /\ received # {}
    /\ HandshakeOks = <<TRUE>>
    /\ connected

\* the handshake attempts of the current call that failed
FailedHandshakes == {i \in 1..Len(Handshakes) : ~Handshakes[i].ok}

\* C35: every call of connect() ends, each exchange and sleep ending: it
\* makes at most 3 handshake attempts, none and no sleep after the first
\* one that succeeded, and it ends by returning True or by raising, never
\* by returning False.
C35_ConnectTerminates ==
    /\ [](ret.op = "connect" =>
            /\ Len(Handshakes) <= 3
            /\ \A i \in 1..Len(Handshakes) :
                   Handshakes[i].ok => i = Len(Handshakes)
            /\ Len(sleeps) <= Cardinality(FailedHandshakes)
            /\ Finished("connect") =>
                   \/ ret = Returned("connect", TRUE, <<>>)
                   \/ ret.status = "raised")
    /\ (ret.op = "connect" /\ ret.status = "running") ~> Finished("connect")

\* a connect() that failed once, slept once, succeeded at the second
\* attempt and returned True without a further attempt or sleep
C35_Witness ==
    /\ Finished("connect")
    /\ HandshakeOks = <<FALSE, TRUE>>
    /\ sleeps = <<1>>
    /\ ret = Returned("connect", TRUE, <<>>)

\* C36: a notifications/initialized that could not be sent does not fail
\* connect(): the call whose handshake succeeded returns True and leaves
\* the client Connected whether or not the notification's post raised, and
\* the notification is the last thing the call does: no further handshake
\* attempt and no sleep follow it.
C36_NotificationFailureIgnored ==
    (ret.op = "connect" /\ Notifications # {}) =>
        /\ ret = Returned("connect", TRUE, <<>>)
        /\ connected
        /\ pc = "idle"
        /\ Notifications = {Len(wire)}
        /\ Len(sleeps) = Cardinality(FailedHandshakes)

\* a connect() whose notification's post raised and that returned True
C36_Witness ==
    /\ Finished("connect")
    /\ LastSent.kind = "notification"
    /\ ~LastSent.ok
    /\ ~last.answered
    /\ ret = Returned("connect", TRUE, <<>>)
    /\ connected

\* this step posts a handshake request that fails
FailedHandshakeStep ==
    /\ Posts
    /\ wire'[Len(wire')].method = "initialize"
    /\ ~wire'[Len(wire')].ok

\* C37: whenever the client is Connected its server capabilities are
\* recorded (server_capabilities is not None), and a handshake attempt that
\* failed records none.
C37_ConnectedHasCapabilities ==
    /\ [](connected => server_capabilities.present)
    /\ [][FailedHandshakeStep =>
              server_capabilities' = server_capabilities]_vars

\* a fresh client Connected by a handshake that succeeded after a failed
\* attempt and whose response had nothing to record: the capabilities are
\* the empty dict, not None
C37_Witness ==
    /\ Finished("connect")
    /\ started.fresh
    /\ connected
    /\ HandshakeOks = <<FALSE, TRUE>>
    /\ server_capabilities = EmptyMap

\* C38: list_tools and list_resources never raise: whatever failure their
\* exchange met (no response, an error status, an undecodable or invalid
\* body, an error object) the call returns, and what it returns is the
\* empty list, the value a server without tools or resources gives.
C38_ListingsNeverRaise ==
    \A op \in {"list_tools", "list_resources"} :
        Finished(op) =>
            /\ ret.status = "returned"
            /\ ~LastSent.ok => ret = Returned(op, FALSE, <<>>)

\* a list_tools whose request got no response returned the empty list
C38_Witness ==
    /\ Finished("list_tools")
    /\ ~last.answered
    /\ ~LastSent.ok
    /\ ret = Returned("list_tools", FALSE, <<>>)

\* this step posts a request that is answered 2xx with a session header
\* and then fails in the primitive (decoding, validation or error object)
FailsAfterHeaderStep ==
    /\ Posts
    /\ last'.kind = "request"
    /\ last'.answered
    /\ last'.status < 400
    /\ Truthy(last'.sid)
    /\ ~wire'[Len(wire')].ok

\* C39: in an exchange with a 2xx response the session token is taken from
\* the response header before the body is decoded and before the error
\* object is looked at: an exchange that then fails with a decode error or
\* a protocol error leaves the session token at the value the response
\* carried.
C39_TokenStoredBeforeDecode ==
    [][FailsAfterHeaderStep => session_id' = last'.sid]_vars

\* a request that went out with another session header than its response
\* carried, whose response held an error object: the primitive raised and
\* the client holds the response's token
C39_Witness ==
    /\ pc = "idle"
    /\ ErrorDelivered
    /\ ~LastSent.ok
    /\ Truthy(last.sid)
    /\ LastSent.sid # last.sid
    /\ session_id = last.sid

\* C31: the mock server answers every request for initialize,
\* notifications/initialized, tools/list, tools/call and resources/list
\* with an event-stream framed response carrying a session header: one
\* freshly minted when the request presents no session, the request's own
\* otherwise, whatever session the request presents.
C31_MockAlwaysAnswers ==
    (/\ answer.handled
     /\ answer.request.path = "/mcp/"
     /\ answer.request.json
     /\ answer.request.method \in MockMethods) =>
        /\ answer.kind = "response"
        /\ answer.status = 200
        /\ answer.ctype = "text/event-stream"
        /\ IF Truthy(answer.request.header)
           THEN answer.sid = answer.request.header
           ELSE answer.minted /\ Truthy(answer.sid)

\* the attempts of the current call that saved their item
Saves == {n \in 1..Len(call.attempts) : call.attempts[n].ok}

\* C33: save_to_cache tries to save every item of its input, also after
\* the save of one of them failed, and returns the number of items whose
\* save succeeded.
C33_SavesEveryItem ==
    (call.pc = "idle" /\ call.status = "returned") =>
        /\ [n \in 1..Len(call.attempts) |-> call.attempts[n].issue]
               = call.issues
        /\ call.value = Cardinality(Saves)

\* a call whose first item failed and whose second item was saved returned 1
C33_Witness ==
    /\ call.pc = "idle"
    /\ call.status = "returned"
    /\ Len(call.issues) = 2
    /\ ~call.attempts[1].ok
    /\ call.attempts[2].ok
    /\ call.value = 1

\* the rows of the cache with issue key k
Rows(k) == {r \in cache : r.key = k}

\* C34: saving is an upsert keyed by issue key: after any sequence of
\* save_to_cache calls the cache holds exactly one row for every issue key
\* saved so far, none for any other, and the row holds the data of the last
\* save of its key.
C34_Upsert ==
    call.pc = "idle" =>
        \A k \in IssueKeys :
            IF latest[k] = None THEN Rows(k) = {}
            ELSE Rows(k) = {[key |-> k, data |-> latest[k]]}

\* an issue saved with one summary by an earlier call was saved again with
\* another: the cache holds one row for it, with the later summary
C34_Witness ==
    /\ call.pc = "idle"
    /\ call.status = "returned"
    /\ [key |-> "PROJ-100", data |-> "summary"] \in call.before
    /\ cache = {[key |-> "PROJ-100", data |-> "Updated summary"]}

====
